---------------------------- MODULE Spec2Model ----------------------------
(***************************************************************************)
(* The JobAgent0 browser extension: the popup (frontend/popup.js), the     *)
(* content script it injects (content.js) and the background service       *)
(* worker (frontend/background.js).                                        *)
(*                                                                         *)
(* The popup is single-threaded JavaScript: every handler runs to its next *)
(* await, and the continuation after an await runs once the awaited        *)
(* promise has settled.  Each await is therefore two steps of the model:   *)
(* the environment settles the promise (the ...Settle actions), and the    *)
(* popup runs the continuation (the after... actions).  Between the two,   *)
(* any other handler or continuation may run.                              *)
(*                                                                         *)
(* Strings the code inspects or assembles (messages, page text, file       *)
(* names) are sequences of tokens, so that includes(), endsWith(), trim()  *)
(* and the template literals are computed rather than assumed.             *)
(***************************************************************************)
EXTENDS Naturals, Sequences, FiniteSets

(***************************************************************************)
(* Bounds of the model.                                                    *)
(***************************************************************************)
MaxRuns == 2
MaxUploads == 1

Runs == 1..MaxRuns
Uploads == 1..MaxUploads

(***************************************************************************)
(* JavaScript values.                                                      *)
(***************************************************************************)
\* undefined, as a message (a token no string holds) and as a scalar
Undefined == <<"#undefined">>
UndefinedStr == "#undefined"

\* v || fallback, for a message v
OrElse(v, fallback) == IF v = Undefined \/ v = <<>> THEN fallback ELSE v

\* `${v}` for a message v
Str(v) == IF v = Undefined THEN <<"undefined">> ELSE v

\* `${s}` for a scalar s
StrOf(s) == IF s = UndefinedStr THEN <<"undefined">> ELSE <<s>>

\* String.prototype.includes
Includes(s, needle) ==
    \E i \in 0..Len(s) :
        /\ i + Len(needle) <= Len(s)
        /\ SubSeq(s, i + 1, i + Len(needle)) = needle

\* String.prototype.endsWith
EndsWith(s, suffix) ==
    /\ Len(suffix) <= Len(s)
    /\ SubSeq(s, Len(s) - Len(suffix) + 1, Len(s)) = suffix

Whitespace == {" ", "\n"}

RECURSIVE TrimStart(_)
TrimStart(s) ==
    IF s # <<>> /\ Head(s) \in Whitespace THEN TrimStart(Tail(s)) ELSE s

RECURSIVE TrimEnd(_)
TrimEnd(s) ==
    IF s # <<>> /\ s[Len(s)] \in Whitespace
    THEN TrimEnd(SubSeq(s, 1, Len(s) - 1))
    ELSE s

\* String.prototype.trim
Trim(s) == TrimEnd(TrimStart(s))

(***************************************************************************)
(* The popup's literals.                                                   *)
(***************************************************************************)
ExtractingText == <<"Extracting job posting...">>
CapturingText == <<"Capturing job posting...">>
GeneratingText == <<"Generating cover letter and resume...">>
ProcessingResumeText == <<"Processing resume...">>

NoActiveTabMessage == <<"No active tab found">>
CannotAccess == <<"Cannot", "access">>
CannotAccessPageMessage ==
    <<"Cannot", "access", "this page. Please navigate to a job posting on a website ",
      "(LinkedIn, Indeed, company career pages, etc.) and try again.">>
ExtractFallback == <<"Failed to extract job posting from page">>
CaptureFallback == <<"Failed to capture job posting">>
GenerateFallback == <<"Failed to generate documents">>
GenerateCatchFallback == <<"Failed to generate documents. Please try again.">>
NotPdfMessage == <<"Please upload a PDF file">>
TooLargeMessage == <<"File size must be less than 10MB">>
UploadFallback == <<"Upload failed">>
UploadCatchFallback == <<"Failed to upload resume. Please try again.">>

PdfSuffix == <<".pdf">>
MaxFileSize == 10 * 1024 * 1024

\* `~/JobAgentWorkspace/jobs/${jobSlug}`
WorkspacePath(jobSlug) == <<"~/JobAgentWorkspace/jobs/">> \o StrOf(jobSlug)

LatexOnlyMessage(jobSlug, error) ==
    <<"Documents generated! LaTeX files saved to: ">> \o WorkspacePath(jobSlug)
        \o <<". Note: ">> \o Str(error)

CompletedMessage(jobSlug) ==
    <<"Documents generated! PDFs saved to: ">> \o WorkspacePath(jobSlug)

(***************************************************************************)
(* The content script's literal.                                           *)
(***************************************************************************)
ExtractEmptyMessage == <<"Failed to extract text from page">>


(***************************************************************************)
(* The environment: what the awaited calls can answer.                     *)
(***************************************************************************)
\* the first element of chrome.tabs.query's result: none, one without an id, a tab
TabResults == {"none", "noid", "ok"}

\* messages chrome.scripting.executeScript rejects with
InjectionErrors ==
    { <<"Cannot", "access", "contents of the page">>,
      <<"The extensions gallery cannot be scripted.">> }

\* the message chrome.tabs.sendMessage rejects with when no listener is there
NoReceiverMessage == <<"Could not establish connection. Receiving end does not exist.">>

\* the message of the TypeError document.body.innerText raises without a body
NoBodyMessage == <<"Cannot read properties of null (reading 'innerText')">>

PageTexts == { <<>>, <<" ", "\n">>, <<" ", "a", " ">> }
PageUrls == {"https://jobs.example/1", "https://jobs.example/2"}
\* the page in the active tab: whether it has a body, its visible text, its URL
Pages == [body : BOOLEAN, innerText : PageTexts, href : PageUrls]

JobSlugs == {"job-1", "job-2"}
JobErrors == {Undefined, <<"StorageWriteError">>}
GenerateErrors == {Undefined, <<"SynthesisSchemaError">>}
CompilerErrors == {Undefined, <<"pdflatex exited with status 1">>}
FetchErrors == { <<"Failed to fetch">> }

ResumePaths == {"resume-1.json", "resume-2.json"}
UploadErrors == {Undefined, <<"Invalid PDF">>}

FileNames == { <<"cv", ".pdf">>, <<"cv", ".PDF">> }
FileSizes == {2 * 1024 * 1024, MaxFileSize, 11 * 1024 * 1024}
Files == [name : FileNames, size : FileSizes]
NoFile == [name |-> <<>>, size |-> 0]

(***************************************************************************)
(* Promises: the state of an awaited call.                                 *)
(***************************************************************************)
NoRes == [st |-> "none"]
Pending == [st |-> "pending"]
Fulfilled(v) == [st |-> "fulfilled", value |-> v]
Rejected(m) == [st |-> "rejected", message |-> m]
Settled(res) == res.st \in {"fulfilled", "rejected"}

(***************************************************************************)
(* The popup's state.                                                      *)
(*   dom       the elements popup.js looks up: `hidden` in the classList   *)
(*             of the three sections, the two status lines, two texts      *)
(*   storage   chrome.storage.local                                        *)
(*   initTask  init(): its position and the awaited storage read          *)
(*   fileDialog   the file chooser resumeInput.click() opened is showing   *)
(*   changeEvent  the file of a dispatched, not yet handled change event   *)
(*   runs      the calls of generateDocuments: position, awaited call,     *)
(*             the local jobSlug and the outstanding request               *)
(*   uploads   the calls of uploadResume that passed validation            *)
(***************************************************************************)
VARIABLES dom, storage, initTask, fileDialog, changeEvent, runs, uploads

vars == <<dom, storage, initTask, fileDialog, changeEvent, runs, uploads>>

PlainClass == "status-message"
ErrorClass == "status-message error"
SuccessClass == "status-message success"

(***************************************************************************)
(* UI state management.  hidden = TRUE: the classList holds 'hidden'.      *)
(***************************************************************************)
showUploadState(d) ==
    [d EXCEPT !.uploadSection = FALSE,
              !.successSection = TRUE,
              !.loadingIndicator = TRUE,
              !.statusText = <<"Ready">>]

\* as showSuccessState, leaving the upload section as it is
showSuccessStateKeepsUpload(d) ==
    [d EXCEPT !.successSection = FALSE,
              !.loadingIndicator = TRUE,
              !.statusText = <<"Resume uploaded">>]

showSuccessState(d) ==
    [d EXCEPT !.uploadSection = TRUE,
              !.successSection = FALSE,
              !.loadingIndicator = TRUE,
              !.statusText = <<"Resume uploaded">>]

showLoading(d) ==
    [d EXCEPT !.uploadSection = TRUE,
              !.successSection = TRUE,
              !.loadingIndicator = FALSE,
              !.uploadStatus = [textContent |-> <<>>, className |-> PlainClass],
              !.loadingText = ProcessingResumeText,
              !.statusText = <<"Processing...">>]

showLoadingForJob(d, message) ==
    [d EXCEPT !.uploadSection = TRUE,
              !.successSection = TRUE,
              !.loadingIndicator = FALSE,
              !.jobStatus = [textContent |-> <<>>, className |-> PlainClass],
              !.loadingText = message,
              !.statusText = <<"Processing...">>]

showError(d, message) ==
    [d EXCEPT !.uploadStatus = [textContent |-> message, className |-> ErrorClass]]

showJobSuccess(d, message) ==
    [d EXCEPT !.jobStatus = [textContent |-> message, className |-> SuccessClass]]

\* as showJobError, with the success marking
showJobErrorMarkedSuccess(d, message) ==
    [d EXCEPT !.jobStatus = [textContent |-> message, className |-> SuccessClass]]

showJobError(d, message) ==
    [d EXCEPT !.jobStatus = [textContent |-> message, className |-> ErrorClass]]

(***************************************************************************)
(* The popup as its markup shows it before init() has applied the stored   *)
(* state: the upload section, with the success section and the loading     *)
(* indicator hidden and both status lines empty.                           *)
(***************************************************************************)
PopupMarkup ==
    [uploadSection |-> FALSE,
     successSection |-> TRUE,
     loadingIndicator |-> TRUE,
     uploadStatus |-> [textContent |-> <<>>, className |-> PlainClass],
     jobStatus |-> [textContent |-> <<>>, className |-> PlainClass],
     loadingText |-> <<>>,
     statusText |-> <<"Ready">>]

\* chrome.storage.local as the service worker initialises it
InstalledStorage == [resumeUploaded |-> FALSE, resumePath |-> "null"]

NoReq == [raw_text |-> <<>>, url |-> "", job_slug |-> ""]
IdleRun == [pc |-> "idle", res |-> NoRes, jobSlug |-> "", req |-> NoReq, injectionError |-> <<>>]
IdleUpload == [pc |-> "idle", res |-> NoRes, req |-> InstalledStorage]

\* The popup has just been opened: the script has run to the await in init().
\* The storage holds what an earlier session left.
Init ==
    /\ dom = PopupMarkup
    /\ storage \in {InstalledStorage}
                     \cup {[resumeUploaded |-> TRUE, resumePath |-> p] : p \in ResumePaths}
    /\ initTask = [pc |-> "get", res |-> Pending]
    /\ fileDialog = FALSE
    /\ changeEvent = NoFile
    /\ runs = [r \in Runs |-> IdleRun]
    /\ uploads = [u \in Uploads |-> IdleUpload]

(***************************************************************************)
(* init()                                                                  *)
(***************************************************************************)
\* chrome.storage.local.get(['resumeUploaded']) answers with the stored flag
StorageGetSettle ==
    /\ initTask.pc = "get"
    /\ initTask.res = Pending
    /\ initTask' = [initTask EXCEPT !.res = Fulfilled(storage.resumeUploaded)]
    /\ UNCHANGED <<dom, storage, fileDialog, changeEvent, runs, uploads>>

init ==
    /\ initTask.pc = "get"
    /\ Settled(initTask.res)
    /\ dom' = IF initTask.res.value THEN showSuccessState(dom) ELSE showUploadState(dom)
    /\ initTask' = [pc |-> "done", res |-> NoRes]
    /\ UNCHANGED <<storage, fileDialog, changeEvent, runs, uploads>>

(***************************************************************************)
(* The service worker's onInstalled listener.                              *)
(***************************************************************************)
onInstalled ==
    /\ storage' = InstalledStorage
    /\ UNCHANGED <<dom, initTask, fileDialog, changeEvent, runs, uploads>>

(***************************************************************************)
(* The content script (content.js): the answer of its onMessage listener   *)
(* to {action: 'extractJobPosting'} on a page.                             *)
(***************************************************************************)
NoData == [raw_text |-> <<>>, url |-> ""]

\* as extractJobPosting, validating with rawText.length instead of the trimmed length
extractJobPostingUntrimmed(page) ==
    IF ~page.body
    THEN [success |-> FALSE, data |-> NoData, error |-> NoBodyMessage]
    ELSE IF page.innerText = <<>>
    THEN [success |-> FALSE, data |-> NoData, error |-> ExtractEmptyMessage]
    ELSE [success |-> TRUE,
          data |-> [raw_text |-> page.innerText, url |-> page.href],
          error |-> Undefined]

extractJobPosting(page) ==
    IF ~page.body
    THEN \* document.body.innerText throws; the catch answers with its message
         [success |-> FALSE, data |-> NoData, error |-> NoBodyMessage]
    ELSE LET rawText == page.innerText
             url == page.href
         IN IF rawText = <<>> \/ Len(Trim(rawText)) = 0
            THEN [success |-> FALSE, data |-> NoData, error |-> ExtractEmptyMessage]
            ELSE [success |-> TRUE,
                  data |-> [raw_text |-> rawText, url |-> url],
                  error |-> Undefined]

\* what the popup sends to the tab, and a message of another kind
ExtractMessage == [action |-> "extractJobPosting"]
Messages == {ExtractMessage, [action |-> "checkBackendHealth"]}

\* as onMessage, answering whatever the message's action is
onMessageAnyAction(message, page) == {extractJobPosting(page)}

\* the listener: the responses it passes to sendResponse for this message
onMessage(message, page) ==
    IF message.action = "extractJobPosting" THEN {extractJobPosting(page)} ELSE {}

(***************************************************************************)
(* The buttons.  A button can be clicked while its section is shown, no    *)
(* file chooser is open and no earlier event waits to be handled.          *)
(***************************************************************************)
CanClick == ~fileDialog /\ changeEvent = NoFile

FreeRun == CHOOSE r \in Runs : runs[r].pc = "idle" /\ \A q \in Runs : runs[q].pc = "idle" => r <= q
FreeUpload ==
    CHOOSE u \in Uploads : uploads[u].pc = "idle" /\ \A q \in Uploads : uploads[q].pc = "idle" => u <= q

\* uploadBtn's click listener: resumeInput.click() opens the file chooser
uploadBtnClick ==
    /\ CanClick
    /\ ~dom.uploadSection
    /\ \E u \in Uploads : uploads[u].pc = "idle"
    /\ fileDialog' = TRUE
    /\ UNCHANGED <<dom, storage, initTask, changeEvent, runs, uploads>>

\* the user picks a file: resumeInput dispatches a change event
ChooseFile(file) ==
    /\ fileDialog
    /\ fileDialog' = FALSE
    /\ changeEvent' = file
    /\ UNCHANGED <<dom, storage, initTask, runs, uploads>>

\* the user closes the file chooser: no change event
CancelFile ==
    /\ fileDialog
    /\ fileDialog' = FALSE
    /\ UNCHANGED <<dom, storage, initTask, changeEvent, runs, uploads>>

\* reuploadBtn's click listener
reuploadBtnClick ==
    /\ CanClick
    /\ ~dom.successSection
    /\ dom' = showUploadState(dom)
    /\ UNCHANGED <<storage, initTask, fileDialog, changeEvent, runs, uploads>>

(***************************************************************************)
(* generateDocuments()                                                     *)
(***************************************************************************)
JobResults ==
    {[success |-> TRUE, job_slug |-> slug, error |-> Undefined] : slug \in JobSlugs}
        \cup {[success |-> FALSE, job_slug |-> UndefinedStr, error |-> e] : e \in JobErrors}

GenerateResults ==
    {[success |-> TRUE, status |-> "completed", error |-> Undefined]}
        \cup {[success |-> TRUE, status |-> "latex_only", error |-> e] : e \in CompilerErrors}
        \cup {[success |-> FALSE, status |-> "failed", error |-> e] : e \in GenerateErrors}

\* the run awaits the next external call
Await(r, pc, req) ==
    [runs EXCEPT ![r] = [@ EXCEPT !.pc = pc, !.res = Pending, !.req = req]]

\* the environment settles the call run r awaits at pc
Settle(r, pc, res) ==
    /\ runs[r].pc = pc
    /\ runs[r].res = Pending
    /\ runs' = [runs EXCEPT ![r].res = res]
    /\ UNCHANGED <<dom, storage, initTask, fileDialog, changeEvent, uploads>>

\* the continuation of run r after the call it awaited at pc has settled
Resumes(r, pc) ==
    /\ runs[r].pc = pc
    /\ Settled(runs[r].res)

\* generateDocuments returns
Return(r) == [runs EXCEPT ![r] = [IdleRun EXCEPT !.pc = "done"]]

\* as catchError, showing the fixed text whatever the error says
catchErrorGeneric(r, message) ==
    /\ dom' = showSuccessState(showJobError(dom, GenerateCatchFallback))
    /\ runs' = Return(r)

\* as catchError, with a catch block that leaves the loading indicator up
catchErrorKeepsLoading(r, message) ==
    /\ dom' = showJobError(dom, OrElse(message, GenerateCatchFallback))
    /\ runs' = Return(r)

\* the catch block of generateDocuments, for an error with this message
catchError(r, message) ==
    /\ dom' = showSuccessState(showJobError(dom, OrElse(message, GenerateCatchFallback)))
    /\ runs' = Return(r)

\* generateBtn's click listener, to the first await
generateDocuments ==
    /\ CanClick
    /\ ~dom.successSection
    /\ \E r \in Runs : runs[r].pc = "idle"
    /\ dom' = showLoadingForJob(dom, ExtractingText)
    /\ runs' = Await(FreeRun, "query", NoReq)
    /\ UNCHANGED <<storage, initTask, fileDialog, changeEvent, uploads>>

tabsQuerySettle(r) ==
    \E tab \in TabResults : Settle(r, "query", Fulfilled(tab))

afterTabsQuery(r) ==
    /\ Resumes(r, "query")
    /\ IF runs[r].res.value # "ok"
       THEN catchError(r, NoActiveTabMessage)
       ELSE /\ runs' = Await(r, "inject", NoReq)
            /\ dom' = dom
    /\ UNCHANGED <<storage, initTask, fileDialog, changeEvent, uploads>>

executeScriptSettle(r) ==
    \E res \in {Fulfilled(TRUE)} \cup {Rejected(m) : m \in InjectionErrors} :
        Settle(r, "inject", res)

\* as InjectionFatal, rethrowing every injection error
InjectionFatalAlways(res) == res.st = "rejected"

\* whether the catch around executeScript rethrows
InjectionFatal(res) == res.st = "rejected" /\ Includes(res.message, CannotAccess)

afterExecuteScript(r) ==
    /\ Resumes(r, "inject")
    /\ IF InjectionFatal(runs[r].res)
       THEN catchError(r, CannotAccessPageMessage)
       ELSE \* the error, if any, is logged and the run proceeds with it
            /\ runs' = [Await(r, "message", NoReq) EXCEPT ![r].injectionError =
                            IF runs[r].res.st = "rejected" THEN runs[r].res.message ELSE <<>>]
            /\ dom' = dom
    /\ UNCHANGED <<storage, initTask, fileDialog, changeEvent, uploads>>

\* the message finds no listener in the tab, or reaches the content script on
\* the page the tab shows
Handling(page) == [st |-> "handling", page |-> page]

sendMessageDeliver(r) ==
    \E res \in {Rejected(NoReceiverMessage)} \cup {Handling(page) : page \in Pages} :
        Settle(r, "message", res)

\* the content script's onMessage listener answers: sendResponse(...)
contentScriptListener(r) ==
    /\ runs[r].pc = "message"
    /\ runs[r].res.st = "handling"
    /\ \E response \in onMessage(ExtractMessage, runs[r].res.page) :
           runs' = [runs EXCEPT ![r].res = Fulfilled(response)]
    /\ UNCHANGED <<dom, storage, initTask, fileDialog, changeEvent, uploads>>

\* the body of POST /job
JobRequest(response) ==
    [raw_text |-> response.data.raw_text, url |-> response.data.url, job_slug |-> ""]

afterSendMessage(r) ==
    /\ Resumes(r, "message")
    /\ LET res == runs[r].res
       IN IF res.st = "rejected"
          THEN catchError(r, res.message)
          ELSE IF ~res.value.success
          THEN catchError(r, OrElse(res.value.error, ExtractFallback))
          ELSE /\ dom' = showLoadingForJob(dom, CapturingText)
               /\ runs' = [Await(r, "job", JobRequest(res.value)) EXCEPT ![r].injectionError = <<>>]
    /\ UNCHANGED <<storage, initTask, fileDialog, changeEvent, uploads>>

\* fetch(`${API_BASE_URL}/job`) and jobResponse.json(): either rejects, or the
\* backend's answer
jobSettle(r) ==
    \E res \in {Rejected(m) : m \in FetchErrors} \cup {Fulfilled(v) : v \in JobResults} :
        Settle(r, "job", res)

\* as GenerateRequest, reading the slug from a field the run does not have
GenerateRequestNoSlug(jobSlug) ==
    [raw_text |-> <<>>, url |-> "", job_slug |-> UndefinedStr]

\* the body of POST /generate
GenerateRequest(jobSlug) ==
    [raw_text |-> <<>>, url |-> "", job_slug |-> jobSlug]

afterJob(r) ==
    /\ Resumes(r, "job")
    /\ LET res == runs[r].res
       IN IF res.st = "rejected"
          THEN catchError(r, res.message)
          ELSE IF ~res.value.success
          THEN catchError(r, OrElse(res.value.error, CaptureFallback))
          ELSE LET jobSlug == res.value.job_slug
               IN /\ dom' = showLoadingForJob(dom, GeneratingText)
                  /\ runs' = [Await(r, "generate", GenerateRequest(jobSlug))
                                 EXCEPT ![r].jobSlug = jobSlug]
    /\ UNCHANGED <<storage, initTask, fileDialog, changeEvent, uploads>>

generateSettle(r) ==
    \E res \in {Rejected(m) : m \in FetchErrors} \cup {Fulfilled(v) : v \in GenerateResults} :
        Settle(r, "generate", res)

\* as SuccessMessage, without the look at the status
SuccessMessageAlwaysPdf(jobSlug, generateResult) == CompletedMessage(jobSlug)

\* the message shown for a generateResult with success
SuccessMessage(jobSlug, generateResult) ==
    IF generateResult.status = "latex_only"
    THEN LatexOnlyMessage(jobSlug, generateResult.error)
    ELSE CompletedMessage(jobSlug)

\* as afterGenerate, with a catch block that also clears the stored résumé state
afterGenerateResetting(r) ==
    /\ Resumes(r, "generate")
    /\ LET res == runs[r].res
       IN IF res.st = "fulfilled" /\ res.value.success
          THEN /\ dom' = showSuccessState(
                            showJobSuccess(dom, SuccessMessage(runs[r].jobSlug, res.value)))
               /\ runs' = Return(r)
               /\ storage' = storage
          ELSE /\ catchError(r, IF res.st = "rejected" THEN res.message
                                ELSE OrElse(res.value.error, GenerateFallback))
               /\ storage' = InstalledStorage
    /\ UNCHANGED <<initTask, fileDialog, changeEvent, uploads>>

afterGenerate(r) ==
    /\ Resumes(r, "generate")
    /\ LET res == runs[r].res
       IN IF res.st = "rejected"
          THEN catchError(r, res.message)
          ELSE IF res.value.success
          THEN /\ dom' = showSuccessState(
                            showJobSuccess(dom, SuccessMessage(runs[r].jobSlug, res.value)))
               /\ runs' = Return(r)
          ELSE catchError(r, OrElse(res.value.error, GenerateFallback))
    /\ UNCHANGED <<storage, initTask, fileDialog, changeEvent, uploads>>

(***************************************************************************)
(* uploadResume(file)                                                      *)
(***************************************************************************)
UploadResults ==
    {[success |-> TRUE, resume_path |-> p, error |-> Undefined] : p \in ResumePaths}
        \cup {[success |-> FALSE, resume_path |-> UndefinedStr, error |-> e] : e \in UploadErrors}

\* as Validate, without the look at the file's name
ValidateNoExtension(file) ==
    IF file.size > MaxFileSize THEN TooLargeMessage ELSE <<>>

\* as Validate, with the size bound a factor of ten too high
ValidateLooseSize(file) ==
    IF ~EndsWith(file.name, PdfSuffix) THEN NotPdfMessage
    ELSE IF file.size > 100 * 1024 * 1024 THEN TooLargeMessage
    ELSE <<>>

\* the two validations of uploadResume: the message of the one that rejects
\* the file, <<>> when both pass
Validate(file) ==
    IF ~EndsWith(file.name, PdfSuffix) THEN NotPdfMessage
    ELSE IF file.size > MaxFileSize THEN TooLargeMessage
    ELSE <<>>

\* uploadResume returns
ReturnUpload(u) == [uploads EXCEPT ![u] = [IdleUpload EXCEPT !.pc = "done"]]

\* the catch block of uploadResume, for an error with this message
catchUploadError(u, message) ==
    /\ dom' = showUploadState(showError(dom, OrElse(message, UploadCatchFallback)))
    /\ uploads' = ReturnUpload(u)
    /\ storage' = storage

\* resumeInput's change listener: uploadResume(file) to its return or first await
resumeInputChange ==
    /\ changeEvent # NoFile
    /\ changeEvent' = NoFile
    /\ LET file == changeEvent
       IN IF Validate(file) # <<>>
          THEN /\ dom' = showError(dom, Validate(file))
               /\ uploads' = uploads
          ELSE /\ dom' = showLoading(dom)
               /\ uploads' = [uploads EXCEPT ![FreeUpload] =
                                 [IdleUpload EXCEPT !.pc = "fetch", !.res = Pending]]
    /\ UNCHANGED <<storage, initTask, fileDialog, runs>>

\* fetch(`${API_BASE_URL}/resume`) and response.json(): either rejects, or the
\* backend's answer
uploadSettle(u) ==
    /\ uploads[u].pc = "fetch"
    /\ uploads[u].res = Pending
    /\ \E res \in {Rejected(m) : m \in FetchErrors} \cup {Fulfilled(v) : v \in UploadResults} :
          uploads' = [uploads EXCEPT ![u].res = res]
    /\ UNCHANGED <<dom, storage, initTask, fileDialog, changeEvent, runs>>

\* as StoredState, reading the path from a field the result does not have
StoredStateNoPath(result) == [resumeUploaded |-> TRUE, resumePath |-> UndefinedStr]

\* what uploadResume stores for a result with success
StoredState(result) == [resumeUploaded |-> TRUE, resumePath |-> result.resume_path]

afterUpload(u) ==
    /\ uploads[u].pc = "fetch"
    /\ Settled(uploads[u].res)
    /\ LET res == uploads[u].res
       IN IF res.st = "rejected"
          THEN catchUploadError(u, res.message)
          ELSE IF res.value.success
          THEN /\ uploads' = [uploads EXCEPT ![u] =
                                 [pc |-> "set", res |-> Pending, req |-> StoredState(res.value)]]
               /\ dom' = dom
               /\ storage' = storage
          ELSE catchUploadError(u, OrElse(res.value.error, UploadFallback))
    /\ UNCHANGED <<initTask, fileDialog, changeEvent, runs>>

\* chrome.storage.local.set writes the items and its promise is fulfilled
storageSetSettle(u) ==
    /\ uploads[u].pc = "set"
    /\ uploads[u].res = Pending
    /\ storage' = uploads[u].req
    /\ uploads' = [uploads EXCEPT ![u].res = Fulfilled(TRUE)]
    /\ UNCHANGED <<dom, initTask, fileDialog, changeEvent, runs>>

afterStorageSet(u) ==
    /\ uploads[u].pc = "set"
    /\ Settled(uploads[u].res)
    /\ dom' = showSuccessState(dom)
    /\ uploads' = ReturnUpload(u)
    /\ UNCHANGED <<storage, initTask, fileDialog, changeEvent, runs>>

(***************************************************************************)
(* The specification.                                                      *)
(***************************************************************************)
Next ==
    \/ StorageGetSettle
    \/ init
    \/ onInstalled
    \/ uploadBtnClick
    \/ \E file \in Files : ChooseFile(file)
    \/ CancelFile
    \/ reuploadBtnClick
    \/ resumeInputChange
    \/ \E u \in Uploads : uploadSettle(u)
    \/ \E u \in Uploads : afterUpload(u)
    \/ \E u \in Uploads : storageSetSettle(u)
    \/ \E u \in Uploads : afterStorageSet(u)
    \/ generateDocuments
    \/ \E r \in Runs : tabsQuerySettle(r)
    \/ \E r \in Runs : afterTabsQuery(r)
    \/ \E r \in Runs : executeScriptSettle(r)
    \/ \E r \in Runs : afterExecuteScript(r)
    \/ \E r \in Runs : sendMessageDeliver(r)
    \/ \E r \in Runs : contentScriptListener(r)
    \/ \E r \in Runs : afterSendMessage(r)
    \/ \E r \in Runs : jobSettle(r)
    \/ \E r \in Runs : afterJob(r)
    \/ \E r \in Runs : generateSettle(r)
    \/ \E r \in Runs : afterGenerate(r)

Spec == Init /\ [][Next]_vars

\* what moves run r on: the call it awaits settles, or its continuation runs
RunProgress(r) ==
    \/ tabsQuerySettle(r)
    \/ afterTabsQuery(r)
    \/ executeScriptSettle(r)
    \/ afterExecuteScript(r)
    \/ sendMessageDeliver(r)
    \/ contentScriptListener(r)
    \/ afterSendMessage(r)
    \/ jobSettle(r)
    \/ afterJob(r)
    \/ generateSettle(r)
    \/ afterGenerate(r)

\* every awaited call of a run settles, and the event loop runs the
\* continuation of a settled call
FairSpec == Spec /\ \A r \in Runs : WF_vars(RunProgress(r))

(***************************************************************************)
(* Properties.                                                             *)
(***************************************************************************)
InFlight(r) == runs[r].pc \notin {"idle", "done"}

\* run r takes the step
Stepped(r) == runs'[r] # runs[r]

\* text that is empty or holds whitespace only
Blank(text) == \A i \in 1..Len(text) : text[i] \in {" ", "\n"}

\* C1: at most one generation run is in flight at any time.
SingleRunInFlight == Cardinality({r \in Runs : InFlight(r)}) <= 1

\* C2: within a run the stages happen in the order capture, POST /job,
\* POST /generate: POST /job is issued only by the continuation that received
\* the content script's success and carries the captured text and URL, and
\* POST /generate is issued only by the continuation that received a /job
\* answer with success, carrying exactly the job_slug of that answer.
StageOrder ==
    { <<"idle", "query">>, <<"query", "inject">>, <<"inject", "message">>,
      <<"message", "job">>, <<"job", "generate">>,
      <<"query", "done">>, <<"inject", "done">>, <<"message", "done">>,
      <<"job", "done">>, <<"generate", "done">> }

StagesInOrder ==
    [][\A r \in Runs :
          LET res == runs[r].res
          IN /\ runs'[r].pc # runs[r].pc => <<runs[r].pc, runs'[r].pc>> \in StageOrder
             /\ (runs'[r].pc = "job" /\ runs[r].pc # "job") =>
                    /\ res.st = "fulfilled"
                    /\ res.value.success
                    /\ runs'[r].req.raw_text = res.value.data.raw_text
                    /\ runs'[r].req.url = res.value.data.url
             /\ (runs'[r].pc = "generate" /\ runs[r].pc # "generate") =>
                    /\ res.st = "fulfilled"
                    /\ res.value.success
                    /\ runs'[r].req.job_slug = res.value.job_slug
             /\ (runs[r].pc = "generate" /\ runs'[r].pc = "generate") =>
                    runs'[r].req = runs[r].req]_vars

\* a run awaits POST /generate, sent with a slug the registrar returned
GenerateIssued ==
    \E r \in Runs : runs[r].pc = "generate" /\ runs[r].req.job_slug \in JobSlugs

\* C3: every error a stage of a run raises ends the run in Failed with a
\* message shown for it; none is swallowed with the run continuing.
EveryStageErrorFails ==
    [][\A r \in Runs :
          (runs[r].res.st = "rejected" /\ Stepped(r)) =>
              /\ runs'[r].pc = "done"
              /\ dom'.jobStatus.className = "status-message error"
              /\ dom'.jobStatus.textContent # <<>>]_vars

\* C4: any failure of the capture step (no active tab, the content script
\* cannot be injected, no collector answers the message) ends the run in
\* Failed showing the 'Cannot access this page...' message.
CaptureFailed(run) ==
    \/ run.pc = "query" /\ run.res.st = "fulfilled" /\ run.res.value # "ok"
    \/ run.pc \in {"inject", "message"} /\ run.res.st = "rejected"

CaptureFailureDenied ==
    [][\A r \in Runs :
          (CaptureFailed(runs[r]) /\ Stepped(r)) =>
              /\ runs'[r].pc = "done"
              /\ dom'.jobStatus.className = "status-message error"
              /\ dom'.jobStatus.textContent = CannotAccessPageMessage]_vars

\* C5: when the text of the page is empty or whitespace only, the content
\* script answers with the extraction failure, and a run that receives a
\* failure from the content script ends there, showing the error, without
\* POST /job.
EmptyCaptureNeverRegisters ==
    [][\A r \in Runs :
          LET res == runs[r].res
          IN /\ ( /\ runs[r].pc = "message"
                  /\ res.st = "handling"
                  /\ res.page.body
                  /\ Blank(res.page.innerText)
                  /\ Stepped(r) ) =>
                    /\ runs'[r].pc = "message"
                    /\ runs'[r].res.st = "fulfilled"
                    /\ ~runs'[r].res.value.success
                    /\ runs'[r].res.value.error = <<"Failed to extract text from page">>
             /\ ( /\ runs[r].pc = "message"
                  /\ res.st = "fulfilled"
                  /\ ~res.value.success
                  /\ Stepped(r) ) =>
                    /\ runs'[r].pc = "done"
                    /\ dom'.jobStatus.className = "status-message error"
                    /\ dom'.jobStatus.textContent = res.value.error]_vars

\* a run has ended on the extraction failure
ExtractionEmptyShown ==
    /\ \E r \in Runs : runs[r].pc = "done"
    /\ dom.jobStatus.textContent = <<"Failed to extract text from page">>
    /\ dom.jobStatus.className = "status-message error"

\* C6: a /generate result with success and status 'latex_only' ends the run
\* in Success, and its message is not the one of a 'completed' result: it
\* names the LaTeX files and ends with the result's error as a note, where a
\* 'completed' result shows the PDFs message.
LatexOnlyIsSuccess ==
    [][\A r \in Runs :
          LET res == runs[r].res
              text == dom'.jobStatus.textContent
              path == <<"~/JobAgentWorkspace/jobs/", runs[r].jobSlug>>
          IN ( /\ runs[r].pc = "generate"
               /\ res.st = "fulfilled"
               /\ res.value.success
               /\ Stepped(r) ) =>
                 /\ runs'[r].pc = "done"
                 /\ dom'.jobStatus.className = "status-message success"
                 /\ ~dom'.successSection
                 /\ dom'.loadingIndicator
                 /\ IF res.value.status = "latex_only"
                    THEN /\ text = <<"Documents generated! LaTeX files saved to: ">> \o path
                                      \o <<". Note: ">>
                                      \o (IF res.value.error = Undefined
                                          THEN <<"undefined">> ELSE res.value.error)
                         /\ \A slug \in JobSlugs :
                               text # <<"Documents generated! PDFs saved to: ",
                                        "~/JobAgentWorkspace/jobs/", slug>>
                    ELSE text = <<"Documents generated! PDFs saved to: ">> \o path]_vars

\* a run has ended on a latex_only result
LatexOnlyShown ==
    /\ \E r \in Runs : runs[r].pc = "done"
    /\ dom.jobStatus.className = "status-message success"
    /\ dom.jobStatus.textContent # <<>>
    /\ dom.jobStatus.textContent[1] = "Documents generated! LaTeX files saved to: "
    /\ ~dom.successSection

\* C7: when POST /job or POST /generate answers with a failure, the run ends
\* in Failed showing the error that answer reports (the stage's fixed text
\* when it reports none), and the run invokes no later stage.
StageFailureReported ==
    [][\A r \in Runs :
          LET res == runs[r].res
          IN /\ ( /\ runs[r].pc \in {"job", "generate"}
                  /\ res.st = "fulfilled"
                  /\ ~res.value.success
                  /\ Stepped(r) ) =>
                    /\ runs'[r].pc = "done"
                    /\ dom'.jobStatus.className = "status-message error"
                    /\ dom'.jobStatus.textContent =
                          IF res.value.error \notin {Undefined, <<>>} THEN res.value.error
                          ELSE IF runs[r].pc = "job" THEN <<"Failed to capture job posting">>
                          ELSE <<"Failed to generate documents">>
             /\ runs[r].pc = "done" => runs'[r].pc = "done"]_vars

\* a run has ended on the registrar's StorageWriteError
RegistrarFailureShown ==
    /\ \E r \in Runs : runs[r].pc = "done"
    /\ dom.jobStatus.textContent = <<"StorageWriteError">>
    /\ dom.jobStatus.className = "status-message error"

\* C8: a generation trigger issued while the stored résumé flag is false ends
\* at once in Failed, before any external call.
NoResumeRejected ==
    [][\A r \in Runs :
          (runs[r].pc = "idle" /\ runs'[r].pc # "idle" /\ ~storage.resumeUploaded) =>
              /\ runs'[r].pc = "done"
              /\ dom'.jobStatus.className = "status-message error"]_vars

\* the change listener handles the event with its file
HandlesChange == changeEvent # NoFile /\ changeEvent' = NoFile

\* C9 as stated: uploadResume on a file larger than 10*1024*1024 bytes is
\* rejected with the size-limit error before any request, the résumé state
\* unchanged.
OversizeRejectedForSize ==
    [][(HandlesChange /\ changeEvent.size > 10 * 1024 * 1024) =>
          /\ dom'.uploadStatus =
                [textContent |-> <<"File size must be less than 10MB">>,
                 className |-> "status-message error"]
          /\ uploads' = uploads
          /\ storage' = storage]_vars

\* C9, amended: uploadResume on a file larger than 10*1024*1024 bytes is
\* rejected before any request, the résumé state unchanged; the error is the
\* size-limit error when the file's name ends in '.pdf', and the file-type
\* error otherwise.
OversizeRejected ==
    [][(HandlesChange /\ changeEvent.size > 10 * 1024 * 1024) =>
          /\ dom'.uploadStatus =
                [textContent |->
                    IF EndsWith(changeEvent.name, <<".pdf">>)
                    THEN <<"File size must be less than 10MB">>
                    ELSE <<"Please upload a PDF file">>,
                 className |-> "status-message error"]
          /\ uploads' = uploads
          /\ storage' = storage
          /\ dom'.uploadSection = dom.uploadSection
          /\ dom'.loadingIndicator = dom.loadingIndicator]_vars

\* an upload was rejected for its size
TooLargeShown ==
    /\ dom.uploadStatus = [textContent |-> <<"File size must be less than 10MB">>,
                           className |-> "status-message error"]
    /\ changeEvent = NoFile
    /\ \A u \in Uploads : uploads[u].pc = "idle"

\* C10: an upload that passed validation stores resumeUploaded = true with
\* resumePath = the backend's resume_path if and only if the backend answered
\* with success; on a failure answer or a rejected request the upload returns
\* without writing the storage.
UploadStoresIffSuccess ==
    [][/\ \A u \in Uploads :
             LET res == uploads[u].res
             IN /\ (uploads[u].pc = "fetch" /\ Settled(res) /\ uploads'[u] # uploads[u]) =>
                       IF res.st = "fulfilled" /\ res.value.success
                       THEN /\ uploads'[u].pc = "set"
                            /\ uploads'[u].req = [resumeUploaded |-> TRUE,
                                                  resumePath |-> res.value.resume_path]
                            /\ storage' = storage
                       ELSE /\ uploads'[u].pc = "done"
                            /\ storage' = storage
                /\ (uploads[u].pc = "set" /\ res = Pending /\ uploads'[u] # uploads[u]) =>
                       /\ storage' = uploads[u].req
                       /\ storage'.resumeUploaded
                /\ (uploads'[u].pc = "set" /\ uploads[u].pc # "set") => uploads[u].pc = "fetch"
       /\ (storage' # storage /\ storage'.resumeUploaded) =>
             \E u \in Uploads : uploads[u].pc = "set" /\ uploads[u].res = Pending
                                   /\ uploads'[u] # uploads[u]]_vars

\* an upload the backend accepted has stored the résumé state
UploadStored ==
    \E u \in Uploads :
        /\ uploads[u].pc = "set"
        /\ Settled(uploads[u].res)
        /\ storage.resumeUploaded
        /\ storage.resumePath \in ResumePaths
        /\ storage = uploads[u].req

\* C11: uploadResume on a file whose name does not end in '.pdf' is rejected
\* with the file-type error before any request, and neither the stored
\* résumé state nor the visible section changes.
NonPdfRejected ==
    [][(HandlesChange /\ changeEvent.name[Len(changeEvent.name)] # ".pdf") =>
          /\ dom'.uploadStatus = [textContent |-> <<"Please upload a PDF file">>,
                                  className |-> "status-message error"]
          /\ uploads' = uploads
          /\ storage' = storage
          /\ dom'.uploadSection = dom.uploadSection
          /\ dom'.successSection = dom.successSection
          /\ dom'.loadingIndicator = dom.loadingIndicator]_vars

\* an upload was rejected for its name
NotPdfShown ==
    /\ dom.uploadStatus = [textContent |-> <<"Please upload a PDF file">>,
                           className |-> "status-message error"]
    /\ changeEvent = NoFile
    /\ \A u \in Uploads : uploads[u].pc = "idle"

\* C12: no step of a generation run, whatever its outcome, writes the stored
\* résumé state: resumeUploaded and resumePath are after the step what they
\* were before it.
RunKeepsResumeState ==
    [][(\E r \in Runs : Stepped(r)) => storage' = storage]_vars

\* a run has failed and another has succeeded, and the résumé is still stored
RunsEndedResumeReady ==
    /\ \A r \in Runs : runs[r].pc = "done"
    /\ dom.jobStatus.className = "status-message error"
    /\ storage.resumeUploaded
    /\ storage.resumePath \in ResumePaths

\* C13: the job outcome on display is that of the most recently finished
\* run with no newer run started: while a run is in flight the job status
\* line is empty.
NoStaleOutcome ==
    (\E r \in Runs : InFlight(r)) => dom.jobStatus.textContent = <<>>

\* C14: when every awaited call settles, every run that was started ends, in
\* one terminal state: the step that ends it shows the success or the error
\* marking, hides the loading indicator and shows the section with the
\* generate button, and an ended run takes no further step.  A run leaves a
\* stage only on the settled result of the call it awaits there.
RunTerminates ==
    /\ \A r \in Runs : InFlight(r) ~> runs[r].pc = "done"
    /\ [][\A r \in Runs :
            /\ (InFlight(r) /\ runs'[r].pc = "done") =>
                  /\ dom'.loadingIndicator
                  /\ ~dom'.successSection
                  /\ dom'.jobStatus.className \in
                        {"status-message success", "status-message error"}
                  /\ dom'.jobStatus.textContent # <<>>
            /\ runs[r].pc = "done" => runs'[r] = runs[r]
            /\ (InFlight(r) /\ runs'[r].pc # runs[r].pc) =>
                  runs[r].res.st \in {"fulfilled", "rejected"}]_vars

\* every run has ended, and the generate button is back
AllRunsEnded ==
    /\ \A r \in Runs : runs[r].pc = "done"
    /\ dom.loadingIndicator
    /\ ~dom.successSection
    /\ dom.jobStatus.className = "status-message success"

\* C15: the content script answers every 'extractJobPosting' message, with
\* success, the page's text (not blank) and the page's URL, or with a failure
\* and an error; the answer is always a response, never an exception; a
\* message with another action gets no response.
ListenerAnswers ==
    [][/\ \A message \in Messages, page \in Pages :
            message.action # "extractJobPosting" => onMessage(message, page) = {}
       /\ \A r \in Runs :
            (runs[r].pc = "message" /\ runs[r].res.st = "handling" /\ Stepped(r)) =>
               LET page == runs[r].res.page
                   answer == runs'[r].res
               IN /\ answer.st = "fulfilled"
                  /\ \/ /\ answer.value.success
                        /\ page.body
                        /\ answer.value.data.raw_text = page.innerText
                        /\ ~Blank(answer.value.data.raw_text)
                        /\ answer.value.data.url = page.href
                     \/ /\ ~answer.value.success
                        /\ answer.value.error # Undefined
                        /\ answer.value.error # <<>>]_vars

\* the content script has answered one run with the page's text and another
\* with a failure
ListenerAnswered ==
    /\ \E r \in Runs : /\ runs[r].pc = "message"
                       /\ runs[r].res.st = "fulfilled"
                       /\ runs[r].res.value.success
    /\ \E r \in Runs : /\ runs[r].pc = "message"
                       /\ runs[r].res.st = "fulfilled"
                       /\ ~runs[r].res.value.success

\* C16: once resumeUploaded is true, no step sets it back to false.
ResumeFlagNeverReset ==
    [][storage.resumeUploaded => storage'.resumeUploaded]_vars

\* C17: an injection error whose message contains 'Cannot access' ends the
\* run at the injection step with the page-access error; after any other
\* injection error the run goes on to send its message to the content script.
InjectionErrorHandled ==
    [][\A r \in Runs :
          (runs[r].pc = "inject" /\ runs[r].res.st = "rejected" /\ Stepped(r)) =>
             LET m == runs[r].res.message
             IN IF \E i \in 1..(Len(m) - 1) : m[i] = "Cannot" /\ m[i + 1] = "access"
                THEN /\ runs'[r].pc = "done"
                     /\ dom'.jobStatus.className = "status-message error"
                     /\ dom'.jobStatus.textContent[1] = "Cannot"
                ELSE /\ runs'[r].pc = "message"
                     /\ runs'[r].res = Pending
                     /\ dom' = dom]_vars

\* a run is past a failed injection and its message has reached the content script
ProceededPastInjectionError ==
    \E r \in Runs : /\ runs[r].pc = "message"
                    /\ runs[r].injectionError # <<>>
                    /\ runs[r].res.st = "handling"

\* C18: every file that passes uploadResume's size validation, so that its
\* upload starts, is smaller than 10*1024*1024 bytes.
PassingFileBelowLimit ==
    [][\A u \in Uploads :
          (uploads[u].pc = "idle" /\ uploads'[u].pc = "fetch") =>
             changeEvent.size < 10 * 1024 * 1024]_vars

\* C19: while a run is in flight the progress text is that of the run's
\* stage: 'Extracting job posting...' up to the content script's answer,
\* 'Capturing job posting...' while POST /job is pending, 'Generating cover
\* letter and resume...' while POST /generate is pending.
ProgressTextShowsStage ==
    \A r \in Runs :
        /\ runs[r].pc \in {"query", "inject", "message"} =>
              dom.loadingText = <<"Extracting job posting...">>
        /\ runs[r].pc = "job" => dom.loadingText = <<"Capturing job posting...">>
        /\ runs[r].pc = "generate" =>
              dom.loadingText = <<"Generating cover letter and resume...">>

\* C20: while an upload or a run is in flight the loading indicator is shown
\* and the upload section and the success section are hidden.
LoadingShownWhileInFlight ==
    ((\E r \in Runs : InFlight(r)) \/ (\E u \in Uploads : uploads[u].pc \in {"fetch", "set"})) =>
        /\ ~dom.loadingIndicator
        /\ dom.uploadSection
        /\ dom.successSection

\* C21: once init() has applied the stored state, exactly one of the upload
\* section, the success section and the loading indicator is visible; and in
\* every state showError, showJobSuccess and showJobError, whatever the
\* message, leave the visibility of the three as it is.
OneSectionVisible ==
    /\ initTask.pc = "done" =>
          Cardinality({s \in {"uploadSection", "successSection", "loadingIndicator"} :
                          ~dom[s]}) = 1
    /\ \A message \in {<<>>, <<"Please upload a PDF file">>, <<"job-1", ".pdf">>} :
          \A d \in {showError(dom, message), showJobSuccess(dom, message),
                    showJobError(dom, message)} :
             /\ d.uploadSection = dom.uploadSection
             /\ d.successSection = dom.successSection
             /\ d.loadingIndicator = dom.loadingIndicator

\* init() has run, an upload error and a job success are on display, and the
\* upload section is the visible one
MessagesShownOneSection ==
    /\ initTask.pc = "done"
    /\ dom.uploadStatus.className = "status-message error"
    /\ dom.jobStatus.className = "status-message success"
    /\ ~dom.uploadSection
    /\ dom.successSection
    /\ dom.loadingIndicator

\* C22: whenever the success section, which holds the generate button, is
\* visible, the stored resumeUploaded flag is true.
GenerateOnlyWhenResumeReady ==
    ~dom.successSection => storage.resumeUploaded

\* C23: the step that ends a run puts exactly one outcome message on
\* display, marked success or error; it is marked success exactly when the
\* run ends on a successful answer of POST /generate, a call made only after
\* a successful answer of POST /job, itself made only after a successful
\* answer of the content script.  As long as no newer run is in flight, the
\* outcome of a finished run stays on display.
OneOutcomePerRun ==
    [][/\ \A r \in Runs :
            LET res == runs[r].res
                ok == res.st = "fulfilled" /\ res.value.success
            IN /\ (InFlight(r) /\ runs'[r].pc = "done") =>
                     /\ dom'.jobStatus.textContent # <<>>
                     /\ dom'.jobStatus.className =
                           IF runs[r].pc = "generate" /\ ok
                           THEN "status-message success"
                           ELSE "status-message error"
               /\ (runs[r].pc = "message" /\ runs'[r].pc = "job") => ok
               /\ (runs[r].pc = "job" /\ runs'[r].pc = "generate") => ok
               /\ runs'[r].pc = "generate" => runs[r].pc \in {"job", "generate"}
               /\ runs'[r].pc = "job" => runs[r].pc \in {"message", "job"}
       /\ ((\E r \in Runs : runs'[r].pc = "done") /\ (\A r \in Runs : ~InFlight(r)')) =>
             /\ dom'.jobStatus.textContent # <<>>
             /\ dom'.jobStatus.className \in
                   {"status-message success", "status-message error"}]_vars

\* one run has ended in success while another has never been started
RunSucceededOnce ==
    /\ \E r \in Runs : runs[r].pc = "done"
    /\ \E r \in Runs : runs[r].pc = "idle"
    /\ dom.jobStatus.className = "status-message success"
    /\ dom.jobStatus.textContent # <<>>

=============================================================================
